---------------------------- MODULE Spec2Model ----------------------------
(***************************************************************************)
(* The CSV ingestion front-end of OpenCEP_Project: the three-level lazy    *)
(* stream pipeline of stream/MultiFileCSVStream.py (CSVFileInputStream,    *)
(* MultiFileCSVStream, MultiDirectoryCSVStream) and the record formatter   *)
(* of stream/CitiBikeDataFormatter.py that the streams share.              *)
(*                                                                         *)
(* Text is a sequence of tokens: "," is the delimiter, " " is whitespace,  *)
(* every other token is an indivisible run of ordinary characters.  A      *)
(* field is a text, a row is the sequence of fields csv.reader returns for *)
(* one physical line, a file is its sequence of rows.                      *)
(***************************************************************************)
EXTENDS Naturals, Sequences, FiniteSets

VARIABLES
    top,                \* which stream class the caller holds
    fs,                 \* the directory list: a sequence of directories
    formatter_headers,  \* CitiBikeDataFormatter._headers (None or a row)
    has_formatter,      \* whether a data_formatter was passed to the stream
    dirStream,          \* the MultiDirectoryCSVStream object
    multiStream,        \* the current MultiFileCSVStream object
    fileStream,         \* the current CSVFileInputStream object
    handles,            \* every file handle opened so far
    yielded,            \* the items next() returned to the caller, in order
    records,            \* what the driver loop made of each line it pulled
    result,             \* the outcome of the caller's latest call
    stopped,            \* the caller's next() has signalled end-of-sequence
    pulled,             \* the caller has called next()
    iterCalls,          \* __iter__() calls made by the caller
    postCalls,          \* next() calls made after end-of-sequence
    closeCalls,         \* close() calls made by the caller
    built,              \* the directory list as it was at construction
    room,               \* the call stack left to next(): None, or the frames
    call,               \* the latest call on the CitiBikeDataFormatter
    sink,               \* the FileOutputStream object
    dest,               \* the destination file of the FileOutputStream
    sunk                \* what the caller has done with the FileOutputStream

vars == <<top, fs, formatter_headers, has_formatter, dirStream, multiStream,
          fileStream, handles, yielded, records, result, stopped, pulled,
          iterCalls, postCalls, closeCalls, built, room, call, sink, dest,
          sunk>>

\* Parts of the state that the calls on one component leave alone.
formatterVars == <<call>>
sinkVars == <<sink, dest, sunk>>

(***************************************************************************)
(* Bounds of the model.                                                    *)
(***************************************************************************)
MaxDirs == 2
MaxSkipDirs == 4
MaxPostCalls == 2
MaxCloses == 2
MaxIters == 1
MaxRoom == 4

(***************************************************************************)
(* Python values.                                                          *)
(***************************************************************************)
None == <<>>
Some(x) == <<x>>
NoItem == [line |-> <<>>, d |-> 0, f |-> 0, r |-> 0]

Range(s) == {s[i] : i \in 1..Len(s)}

(***************************************************************************)
(* Text conversions.                                                       *)
(***************************************************************************)
RECURSIVE Join(_)
Join(row) ==
    IF Len(row) = 0 THEN <<>>
    ELSE IF Len(row) = 1 THEN row[1]
    ELSE row[1] \o <<",">> \o Join(Tail(row))

RECURSIVE LStrip(_)
LStrip(text) ==
    IF Len(text) > 0 /\ text[1] = " " THEN LStrip(Tail(text)) ELSE text

RECURSIVE RStrip(_)
RStrip(text) ==
    IF Len(text) > 0 /\ text[Len(text)] = " "
    THEN RStrip(SubSeq(text, 1, Len(text) - 1))
    ELSE text

Strip(text) == RStrip(LStrip(text))

RECURSIVE SplitFrom(_, _, _)
SplitFrom(text, done, cur) ==
    IF Len(text) = 0 THEN Append(done, cur)
    ELSE LET sep == text[1] = ","
         IN SplitFrom(Tail(text),
                      IF sep THEN Append(done, cur) ELSE done,
                      IF sep THEN <<>> ELSE Append(cur, text[1]))

Split(text) == SplitFrom(text, <<>>, <<>>)

(***************************************************************************)
(* The files the model reads.  HB is a Variant-B header, HA a Variant-A    *)
(* header, HP a header whose last column name ends in a blank.             *)
(***************************************************************************)
F(a) == <<a>>
HB == <<F("starttime"), F("start station latitude"), F("bikeid"),
        F("usertype"), F("gender")>>
HA == <<F("rideable_type"), F("started_at"), F("start_lat")>>
HP == <<F("starttime"), F("start station latitude"), F("bikeid"),
        F("usertype"), <<"gender", " ">>>>
RowB(t) == <<F(t), F("40.7"), F("b1"), F("Subscriber"), F("1")>>
RowA(t) == <<F("classic_bike"), F(t), F("40.7")>>

\* linked: the name is in the directory; a file whose name was removed or
\* changed keeps its rows for the file objects that still read it.
File(n, m, rows) == [name |-> n, matches |-> m, rows |-> rows, linked |-> TRUE]

DirNone == {}
DirNoMatch == {File(1, FALSE, <<HB, RowB("t1")>>)}
DirOne == {File(1, TRUE, <<HB, RowB("t1"), RowB("t2")>>)}
DirTwo == {File(3, TRUE, <<HB, RowB("t3")>>),
           File(2, FALSE, <<HB, RowB("t9")>>),
           File(1, TRUE, <<HB, RowB("t1")>>)}
DirEmptyFile == {File(1, TRUE, <<>>)}
DirEmptyFirst == {File(1, TRUE, <<>>), File(2, TRUE, <<HB, RowB("t1")>>)}
DirOther == {File(1, TRUE, <<HA, RowA("t1")>>)}
DirPadded == {File(1, TRUE, <<HP, RowB("t1")>>),
              File(2, TRUE, <<HP, RowB("t2")>>)}

DirKinds == {DirNoMatch, DirOne, DirTwo, DirEmptyFile, DirEmptyFirst, DirOther}
DirPaddedOne == {File(1, TRUE, <<HP, RowB("t1"), RowB("t2")>>)}

CleanDirKinds == {DirNone, DirNoMatch, DirOne, DirTwo}
PaddedDirKinds == {DirNone, DirPadded, DirPaddedOne}
FileKinds == {DirEmptyFile, DirOne, {File(1, TRUE, <<HB>>)}}

SeqsUpTo(S, n) == UNION {[1..k -> S] : k \in 1..n}

FileRows(path) ==
    (CHOOSE f \in fs[path[1]] : f.name = path[2]).rows

(***************************************************************************)
(* glob.glob and sorted, as MultiFileCSVStream.__init__ uses them.         *)
(***************************************************************************)
Glob(dir) == {f.name : f \in {g \in dir : g.matches /\ g.linked}}

\* Whether open() finds the file.
Linked(path) == \E f \in fs[path[1]] : f.name = path[2] /\ f.linked

RECURSIVE Sorted(_)
Sorted(S) ==
    IF S = {} THEN <<>>
    ELSE LET m == CHOOSE x \in S : \A y \in S : x <= y
         IN <<m>> \o Sorted(S \ {m})


(***************************************************************************)
(* The program state the stream methods work on, as one record:            *)
(* d the MultiDirectoryCSVStream, m its current MultiFileCSVStream, c the  *)
(* current CSVFileInputStream, h the file handles, f the formatter header. *)
(* A method returns the state it leaves, how it ended (out) and the item.  *)
(***************************************************************************)
State == [d |-> dirStream, m |-> multiStream, c |-> fileStream,
          h |-> handles, f |-> formatter_headers]

Ret(s, out, item) == [s |-> s, out |-> out, item |-> item]

\* The value a method goes on with.  The methods below are written
\*     Only({ what follows : x \in {value} })
\* for "x = value; what follows", so that a local variable is worked out
\* once, where the code assigns it.
Only(S) == CHOOSE r \in S : TRUE

(***************************************************************************)
(* Stream.close of the base class InputStream (stream/Stream.py): puts the *)
(* end marker on the object's queue and cannot fail.  q is the number of   *)
(* end markers on the queue.                                               *)
(***************************************************************************)
Stream_close(q) == q + 1

(***************************************************************************)
(* CitiBikeDataFormatter.set_headers                                       *)
(***************************************************************************)
set_headers(old, headers) == Some(headers)

(***************************************************************************)
(* CSVFileInputStream                                                      *)
(***************************************************************************)
NoFileStream ==
    [file_path |-> <<0, 0>>, has_header |-> FALSE, file |-> 0,
     csv_reader |-> None, is_initialized |-> FALSE, queue |-> 0]

\* open(): a new handle; a handle self._file still referred to is left
\* without an owner (only the garbage collector can close it now).
Open(h, old, path) ==
    Append([i \in 1..Len(h) |->
               IF i = old THEN [h[i] EXCEPT !.owned = FALSE] ELSE h[i]],
           [path |-> path, open |-> TRUE, closes |-> 0, owned |-> TRUE])

CSV_init_eager(s, file_path, header) ==
    [s EXCEPT !.h = Open(s.h, 0, file_path),
              !.c = [file_path |-> file_path, has_header |-> header,
                     file |-> Len(s.h) + 1, csv_reader |-> Some(0),
                     is_initialized |-> FALSE, queue |-> 0]]

CSV_init(s, file_path, header) ==
    [s EXCEPT !.c = [file_path |-> file_path, has_header |-> header,
                     file |-> 0, csv_reader |-> None,
                     is_initialized |-> FALSE, queue |-> 0]]

CSV_initialize(s) ==
    IF s.c.is_initialized THEN Ret(s, "ok", NoItem)
    ELSE IF ~Linked(s.c.file_path) THEN Ret(s, "FileNotFoundError", NoItem)
    ELSE LET opened == [s EXCEPT
                 !.h = Open(s.h, s.c.file, s.c.file_path),
                 !.c.file = Len(s.h) + 1,
                 !.c.csv_reader = Some(0)]
             rows == FileRows(s.c.file_path)
         IN IF s.c.has_header
            THEN IF Len(rows) = 0
                 THEN Ret(opened, "StopIteration", NoItem)
                 ELSE Ret([opened EXCEPT
                              !.c.csv_reader = Some(1),
                              !.f = IF has_formatter
                                    THEN set_headers(s.f, rows[1]) ELSE @,
                              !.c.is_initialized = TRUE], "ok", NoItem)
            ELSE Ret([opened EXCEPT !.c.is_initialized = TRUE], "ok", NoItem)

CSV_cleanup_keeps_file(s) ==
    IF s.c.file # 0
    THEN [s EXCEPT !.h[s.c.file].open = FALSE,
                   !.h[s.c.file].closes = @ + 1,
                   !.c.csv_reader = None]
    ELSE s

CSV_cleanup(s) ==
    IF s.c.file # 0
    THEN [s EXCEPT !.h[s.c.file].open = FALSE,
                   !.h[s.c.file].closes = @ + 1,
                   !.c.file = 0,
                   !.c.csv_reader = None]
    ELSE s

CSV_next(s) ==
    Only({LET t == i.s
              rows == FileRows(t.c.file_path)
          IN IF i.out # "ok" THEN i
             ELSE IF t.c.csv_reader = None THEN Ret(t, "TypeError", NoItem)
             ELSE LET pos == t.c.csv_reader[1]
                  IN IF pos < Len(rows)
                     THEN Ret([t EXCEPT !.c.csv_reader = Some(pos + 1)],
                              "item",
                              [line |-> Join(rows[pos + 1]),
                               d |-> t.c.file_path[1],
                               f |-> t.c.file_path[2], r |-> pos + 1])
                     ELSE Ret(CSV_cleanup(t), "StopIteration", NoItem)
          : i \in {IF ~s.c.is_initialized THEN CSV_initialize(s)
                   ELSE Ret(s, "ok", NoItem)}})

CSV_iter(s) ==
    IF ~s.c.is_initialized THEN CSV_initialize(s) ELSE Ret(s, "ok", NoItem)

CSV_close(s) ==
    LET t == CSV_cleanup(s)
    IN [t EXCEPT !.c.queue = Stream_close(@)]

(***************************************************************************)
(* MultiFileCSVStream                                                      *)
(***************************************************************************)
NoMultiStream ==
    [dir |-> 0, file_paths |-> <<>>, current_file_index |-> 0,
     current_stream |-> FALSE, headers_read |-> FALSE, has_header |-> FALSE,
     queue |-> 0]

Unsorted(S) ==
    LET RECURSIVE Desc(_)
        Desc(T) == IF T = {} THEN <<>>
                   ELSE LET m == CHOOSE x \in T : \A y \in T : y <= x
                        IN <<m>> \o Desc(T \ {m})
    IN Desc(S)

file_paths_unsorted(dir) == Unsorted(Glob(dir))

file_paths_of(dir) == Sorted(Glob(dir))

\* The constructor: out is "Exception" when no file matches the pattern.
MultiFile_init(s, d, header) ==
    LET paths == file_paths_of(fs[d])
    IN IF paths = <<>> THEN Ret(s, "Exception", NoItem)
       ELSE Ret([s EXCEPT
                   !.m = [dir |-> d, file_paths |-> paths,
                          current_file_index |-> 0, current_stream |-> FALSE,
                          headers_read |-> FALSE, has_header |-> header,
                          queue |-> 0],
                   !.c = NoFileStream], "ok", NoItem)

\* _open_next_file looking the directory up again.
MultiFile_open_next_file_rescans(s) ==
    LET paths == file_paths_of(fs[s.m.dir])
    IN IF s.m.current_file_index >= Len(paths)
       THEN [s |-> [s EXCEPT !.m.file_paths = paths], ret |-> FALSE]
       ELSE LET s1 == IF s.m.current_stream THEN CSV_close(s) ELSE s
                file_path == <<s.m.dir, paths[s.m.current_file_index + 1]>>
                skip_header == s.m.has_header /\ s.m.headers_read
                s2 == CSV_init(s1, file_path, s.m.has_header /\ ~skip_header)
            IN [s |-> [s2 EXCEPT !.m.file_paths = paths,
                                 !.m.current_stream = TRUE,
                                 !.m.headers_read = TRUE,
                                 !.m.current_file_index = @ + 1],
                ret |-> TRUE]

\* _open_next_file leaving the current CSVFileInputStream as it is.
MultiFile_open_next_file_keeps_child(s) ==
    IF s.m.current_file_index >= Len(s.m.file_paths)
    THEN [s |-> s, ret |-> FALSE]
    ELSE LET file_path == <<s.m.dir, s.m.file_paths[s.m.current_file_index + 1]>>
             skip_header == s.m.has_header /\ s.m.headers_read
             s2 == CSV_init(s, file_path, s.m.has_header /\ ~skip_header)
         IN [s |-> [s2 EXCEPT !.m.current_stream = TRUE,
                              !.m.headers_read = TRUE,
                              !.m.current_file_index = @ + 1],
             ret |-> TRUE]

MultiFile_open_next_file(s) ==
    IF s.m.current_file_index >= Len(s.m.file_paths)
    THEN [s |-> s, ret |-> FALSE]
    ELSE LET s1 == IF s.m.current_stream THEN CSV_close(s) ELSE s
             file_path == <<s.m.dir, s.m.file_paths[s.m.current_file_index + 1]>>
             skip_header == s.m.has_header /\ s.m.headers_read
             s2 == CSV_init(s1, file_path, s.m.has_header /\ ~skip_header)
         IN [s |-> [s2 EXCEPT !.m.current_stream = TRUE,
                              !.m.headers_read = TRUE,
                              !.m.current_file_index = @ + 1],
             ret |-> TRUE]

RECURSIVE MultiFile_next(_)
MultiFile_next(s) ==
    Only({IF ~o.ret THEN Ret(o.s, "StopIteration", NoItem)
          ELSE Only({IF n.out = "StopIteration"
                     THEN Only({IF ~o2.ret
                                THEN Ret(o2.s, "StopIteration", NoItem)
                                ELSE MultiFile_next(o2.s)
                                : o2 \in {MultiFile_open_next_file(n.s)}})
                     ELSE n
                     : n \in {CSV_next(o.s)}})
          : o \in {IF ~s.m.current_stream THEN MultiFile_open_next_file(s)
                   ELSE [s |-> s, ret |-> TRUE]}})

get_file_count(m) == Len(m.file_paths)

get_file_paths(m) == m.file_paths

MultiFile_close_leaves_child(s) ==
    [s EXCEPT !.m.queue = Stream_close(@)]

MultiFile_close(s) ==
    LET t == IF s.m.current_stream THEN CSV_close(s) ELSE s
    IN [t EXCEPT !.m.queue = Stream_close(@)]

(***************************************************************************)
(* MultiDirectoryCSVStream                                                 *)
(***************************************************************************)
MultiDir_init(s, header) ==
    [s EXCEPT !.d = [current_dir_index |-> 0, current_stream |-> FALSE,
                     has_header |-> header, queue |-> 0],
              !.m = NoMultiStream, !.c = NoFileStream]

\* The call stack.  _open_next_directory calls itself once for every
\* directory it skips, and the interpreter ends a call that nests deeper
\* than the stack has room for with RecursionError.  room is None when the
\* stack has room for every directory list read here, else the number of
\* nested _open_next_directory calls it has room for.  The constructor of
\* MultiFileCSVStream nests further calls (__init__, glob.glob) on top of
\* the call that makes it; the calls of close() are taken to fit.
ConstructorFrames == 2

HasRoom(depth) == room = None \/ depth <= room[1]

\* A stack with no room for one constructor call would not run __next__.
Rooms == {None} \cup {Some(n) : n \in (1 + ConstructorFrames)..MaxRoom}

\* The constructor call of line 239 under "try": out is "Exception" when no
\* file matches and "RecursionError" when the stack has no room for it.
MultiFile_init_at(s, d, header, depth) ==
    IF HasRoom(depth + ConstructorFrames) THEN MultiFile_init(s, d, header)
    ELSE Ret(s, "RecursionError", NoItem)

\* depth is the nesting of this call: 1 for the call __next__ makes.
RECURSIVE MultiDir_open_next_directory_at(_, _)
MultiDir_open_next_directory_at(s, depth) ==
    IF ~HasRoom(depth)
    THEN [s |-> s, ret |-> FALSE, out |-> "RecursionError"]
    ELSE IF s.d.current_dir_index >= Len(fs)
    THEN [s |-> s, ret |-> FALSE, out |-> "ok"]
    ELSE Only({
           Only({IF made.out = "ok"
                 THEN [s |-> [made.s EXCEPT !.d.current_stream = TRUE,
                                            !.d.current_dir_index = @ + 1],
                       ret |-> TRUE, out |-> "ok"]
                 ELSE Only({MultiDir_open_next_directory_at(s2, depth + 1)
                            : s2 \in {[s1 EXCEPT
                                          !.d.current_dir_index = @ + 1]}})
                 : made \in {MultiFile_init_at(s1, s.d.current_dir_index + 1,
                                               s.d.has_header, depth)}})
           : s1 \in {IF s.d.current_stream THEN MultiFile_close(s) ELSE s}})

MultiDir_open_next_directory(s) == MultiDir_open_next_directory_at(s, 1)

RECURSIVE MultiDir_next(_)
MultiDir_next(s) ==
    Only({IF o.out # "ok" THEN Ret(o.s, o.out, NoItem)
          ELSE IF ~o.ret THEN Ret(o.s, "StopIteration", NoItem)
          ELSE Only({IF n.out = "StopIteration"
                     THEN Only({IF o2.out # "ok"
                                THEN Ret(o2.s, o2.out, NoItem)
                                ELSE IF ~o2.ret
                                THEN Ret(o2.s, "StopIteration", NoItem)
                                ELSE MultiDir_next(o2.s)
                                : o2 \in {MultiDir_open_next_directory(n.s)}})
                     ELSE n
                     : n \in {MultiFile_next(o.s)}})
          : o \in {IF ~s.d.current_stream THEN MultiDir_open_next_directory(s)
                   ELSE [s |-> s, ret |-> TRUE, out |-> "ok"]}})

MultiDir_close(s) ==
    LET t == IF s.d.current_stream THEN MultiFile_close(s) ELSE s
    IN [t EXCEPT !.d.queue = Stream_close(@)]

(***************************************************************************)
(* CitiBikeDataFormatter                                                   *)
(***************************************************************************)
HeaderThreshold == 5

expected_headers ==
    {F("tripduration"), F("starttime"), F("stoptime"), F("start station id"),
     F("start station name"), F("start station latitude"),
     F("start station longitude"), F("end station id"), F("end station name"),
     F("end station latitude"), F("end station longitude"), F("bikeid"),
     F("usertype"), F("birth year"), F("gender")}

numeric_headers ==
    {F("start station latitude"), F("start station longitude"),
     F("end station latitude"), F("end station longitude")}

\* The texts float() accepts: blanks around a number.
NumericAtoms == {"40.7", "1"}
IsFloat(value) ==
    LET v == Strip(value) IN Len(v) = 1 /\ v[1] \in NumericAtoms

is_header_row(values) ==
    Cardinality({i \in 1..Len(values) : values[i] \in expected_headers})
        >= HeaderThreshold

NoPayload == <<>>

Payload(headers, values) ==
    [h \in Range(headers) |->
        LET i == CHOOSE j \in 1..Len(headers) :
                    /\ headers[j] = h
                    /\ \A k \in 1..Len(headers) : headers[k] = h => k <= j
        IN IF h \in numeric_headers /\ IsFloat(values[i])
           THEN [float |-> TRUE, text |-> Strip(values[i])]
           ELSE [float |-> FALSE, text |-> values[i]]]

\* The detail of the "Data mismatch: expected {h} values but got {n}" error.
NoDetail == <<>>
Mismatch(h, n) == [expected |-> h, actual |-> n]

\* parse_event raising the mismatch only for a row with too few values.
parse_event_short_rows_only(f, raw_data) ==
    LET values == Split(Strip(raw_data))
        Out(g, out, detail, payload) ==
            [f |-> g, out |-> out, detail |-> detail, payload |-> payload]
    IN IF f = None \/ f[1] = <<>>
       THEN IF is_header_row(values)
            THEN Out(Some(values), "None", NoDetail, NoPayload)
            ELSE Out(f, "SetupError", NoDetail, NoPayload)
       ELSE IF values = f[1]
            THEN Out(f, "None", NoDetail, NoPayload)
       ELSE IF Len(values) < Len(f[1])
            THEN Out(f, "ShapeMismatch", Mismatch(Len(f[1]), Len(values)),
                     NoPayload)
       ELSE Out(f, "Record", NoDetail, Payload(f[1], values))

\* parse_event taking whatever line comes first for the header.
parse_event_captures_any(f, raw_data) ==
    LET values == Split(Strip(raw_data))
        Out(g, out, detail, payload) ==
            [f |-> g, out |-> out, detail |-> detail, payload |-> payload]
    IN IF f = None \/ f[1] = <<>>
       THEN Out(Some(values), "None", NoDetail, NoPayload)
       ELSE IF values = f[1]
            THEN Out(f, "None", NoDetail, NoPayload)
       ELSE IF Len(values) # Len(f[1])
            THEN Out(f, "ShapeMismatch", Mismatch(Len(f[1]), Len(values)),
                     NoPayload)
       ELSE Out(f, "Record", NoDetail, Payload(f[1], values))

\* f is self._headers; the result carries the header the call leaves.
parse_event(f, raw_data) ==
    LET values == Split(Strip(raw_data))
        Out(g, out, detail, payload) ==
            [f |-> g, out |-> out, detail |-> detail, payload |-> payload]
    IN IF f = None \/ f[1] = <<>>
       THEN IF is_header_row(values)
            THEN Out(Some(values), "None", NoDetail, NoPayload)
            ELSE Out(f, "SetupError", NoDetail, NoPayload)
       ELSE IF values = f[1]
            THEN Out(f, "None", NoDetail, NoPayload)
       ELSE IF Len(values) # Len(f[1])
            THEN Out(f, "ShapeMismatch", Mismatch(Len(f[1]), Len(values)),
                     NoPayload)
       ELSE Out(f, "Record", NoDetail, Payload(f[1], values))

\* CitiBikeEventTypeClassifier.get_event_type: dict.get with a default.
Text(t) == [float |-> FALSE, text |-> t]

get_event_type(event_payload) ==
    IF F("rideable_type") \in DOMAIN event_payload
    THEN event_payload[F("rideable_type")]
    ELSE Text(F("unknown"))

\* datetime.strptime with "%Y-%m-%d %H:%M:%S.%f" and "%Y-%m-%d %H:%M:%S":
\* the whole text has to match, blanks around it included.  A time is one
\* token; second is the time to the second, fraction its fraction digits.
Stamp(second, fraction) == [second |-> second, fraction |-> fraction]
FractionStamps == {"2021-01-01 08:00:00.500"}
PlainStamps == {"2021-01-01 08:00:00"}
strptime_fraction(text) == Len(text) = 1 /\ text[1] \in FractionStamps
strptime_plain(text) == Len(text) = 1 /\ text[1] \in PlainStamps
Millis(text) ==
    IF strptime_fraction(text) THEN Stamp("2021-01-01 08:00:00", "500")
    ELSE Stamp(text[1], "")

\* CitiBikeDataFormatter.get_event_timestamp
get_event_timestamp(event_payload) ==
    IF F("starttime") \notin DOMAIN event_payload
    THEN [out |-> "NoTimestamp", value |-> <<>>]
    ELSE LET timestamp_str == event_payload[F("starttime")].text
         IN IF timestamp_str = <<>>
            THEN [out |-> "NoTimestamp", value |-> <<>>]
            ELSE IF strptime_fraction(timestamp_str)
                    \/ strptime_plain(timestamp_str)
            THEN [out |-> "ok", value |-> <<Millis(timestamp_str)>>]
            ELSE [out |-> "InvalidTimestamp", value |-> <<>>]

(***************************************************************************)
(* FileOutputStream (stream/FileStream.py).  An item is a string or a      *)
(* number; str() makes a text of it.  The base class OutputStream          *)
(* (stream/Stream.py) keeps the items in a queue: add_item puts the item,  *)
(* close puts the end marker None, and iterating takes items off the queue *)
(* up to and including the next end marker.                                *)
(* A file object opened for writing keeps what write() got in its buffer   *)
(* (pending) until the buffer spills or the file is closed.                *)
(***************************************************************************)
StrItem(x) == [kind |-> "str", s |-> x, n |-> 0]
IntItem(k) == [kind |-> "int", s |-> "", n |-> k]
Digits == <<"1", "2">>
Str(item) == IF item.kind = "str" THEN <<item.s>> ELSE <<Digits[item.n]>>

OutputStream_add_item(q, item) == Append(q, Some(item))
OutputStream_close(q) == Append(q, None)

\* for item in self: the items before the first end marker, and what the
\* queue holds once the loop has taken that marker.
RECURSIVE OutputStream_taken(_)
OutputStream_taken(q) ==
    IF q = <<>> \/ q[1] = None THEN <<>>
    ELSE <<q[1][1]>> \o OutputStream_taken(Tail(q))

OutputStream_left(q) ==
    SubSeq(q, Len(OutputStream_taken(q)) + 2, Len(q))

\* open(path, 'w'): the file exists and is empty; a new file object.
OpenForWriting(k) ==
    [k EXCEPT !.sink.output_file = Some([open |-> TRUE, pending |-> <<>>]),
              !.dest = [exists |-> TRUE, content |-> <<>>]]

\* file.write(text) on an open file object.
Write(k, text) ==
    [k EXCEPT !.sink.output_file[1].pending = @ \o text]

RECURSIVE WriteAll(_, _)
WriteAll(k, items) ==
    IF items = <<>> THEN k
    ELSE WriteAll(Write(k, Str(items[1])), Tail(items))

\* file.close(): what is pending reaches the file; closing twice is allowed.
CloseFile(k) ==
    IF k.sink.output_file[1].open
    THEN [k EXCEPT !.dest.content = @ \o k.sink.output_file[1].pending,
                   !.sink.output_file[1].pending = <<>>,
                   !.sink.output_file[1].open = FALSE]
    ELSE k

Sink == [sink |-> sink, dest |-> dest]

FileOutputStream_init(k, is_async) ==
    LET made == [k EXCEPT !.sink = [is_async |-> is_async,
                                    output_file |-> None, stream |-> <<>>]]
    IN IF is_async THEN OpenForWriting(made) ELSE made

FileOutputStream_add_item(k, item) ==
    IF k.sink.is_async
    THEN IF k.sink.output_file[1].open
         THEN [k |-> Write(k, Str(item)), out |-> "ok"]
         ELSE [k |-> k, out |-> "ValueError"]
    ELSE [k |-> [k EXCEPT !.sink.stream = OutputStream_add_item(@, item)],
          out |-> "ok"]

\* close() opening the destination without emptying it.
FileOutputStream_close_appending(k) ==
    LET k1 == [k EXCEPT !.sink.stream = OutputStream_close(@)]
    IN IF ~k1.sink.is_async
       THEN LET k2 == [k1 EXCEPT
                          !.sink.output_file =
                              Some([open |-> TRUE, pending |-> <<>>]),
                          !.dest.exists = TRUE]
                k3 == WriteAll(k2, OutputStream_taken(k1.sink.stream))
            IN CloseFile([k3 EXCEPT
                             !.sink.stream = OutputStream_left(@)])
       ELSE CloseFile(k1)

FileOutputStream_close(k) ==
    LET k1 == [k EXCEPT !.sink.stream = OutputStream_close(@)]
    IN IF ~k1.sink.is_async
       THEN LET k2 == OpenForWriting(k1)
                k3 == WriteAll(k2, OutputStream_taken(k1.sink.stream))
            IN CloseFile([k3 EXCEPT
                             !.sink.stream = OutputStream_left(@)])
       ELSE CloseFile(k1)

(***************************************************************************)
(* The caller's calls on the stream it holds.                              *)
(***************************************************************************)
\* No call on the formatter yet; no FileOutputStream, no destination file.
NoCall == [op |-> "none", line |-> <<>>, before |-> None, out |-> "none",
           detail |-> <<>>, payload |-> <<>>, value |-> <<>>, raised |-> ""]
NoSink == [is_async |-> FALSE, output_file |-> None, stream |-> <<>>]
NoDest == [exists |-> FALSE, content |-> <<>>]
NoSunk == [op |-> "none", out |-> "ok", added |-> <<>>, late |-> <<>>,
           dest0 |-> NoDest, closes |-> 0]

NoDirStream ==
    [current_dir_index |-> 0, current_stream |-> FALSE, has_header |-> FALSE,
     queue |-> 0]

Blank == [d |-> NoDirStream, m |-> NoMultiStream, c |-> NoFileStream,
          h |-> <<>>, f |-> None]

TopNext(s) ==
    IF top = "file" THEN CSV_next(s)
    ELSE IF top = "multi" THEN MultiFile_next(s)
    ELSE MultiDir_next(s)

TopIter(s) ==
    IF top = "file" THEN CSV_iter(s) ELSE Ret(s, "ok", NoItem)

TopClose(s) ==
    IF top = "file" THEN CSV_close(s)
    ELSE IF top = "multi" THEN MultiFile_close(s)
    ELSE MultiDir_close(s)

Install(s) ==
    /\ dirStream' = s.d
    /\ multiStream' = s.m
    /\ fileStream' = s.c
    /\ handles' = s.h
    /\ formatter_headers' = s.f

Streams(t, dirs, hf, s) ==
    /\ top = t
    /\ fs = dirs
    /\ has_formatter = hf
    /\ dirStream = s.d
    /\ multiStream = s.m
    /\ fileStream = s.c
    /\ handles = s.h
    /\ formatter_headers = s.f
    /\ yielded = <<>>
    /\ records = <<>>
    /\ result = [op |-> "init", out |-> "ok", prev |-> "init"]
    /\ stopped = FALSE
    /\ pulled = FALSE
    /\ iterCalls = 0
    /\ postCalls = 0
    /\ closeCalls = 0
    /\ built = dirs
    /\ call = NoCall

Construct(t, dirs, hf, s) ==
    /\ Streams(t, dirs, hf, s)
    /\ room = None
    /\ sink = NoSink
    /\ dest = NoDest
    /\ sunk = NoSunk

InitDir ==
    \E dirs \in SeqsUpTo(DirKinds, MaxDirs), header \in BOOLEAN :
        Construct("dir", dirs, TRUE, MultiDir_init(Blank, header))

\* The constructor fails when nothing matches, and then no stream exists.
InitMulti ==
    \E dir \in DirKinds, header \in BOOLEAN :
        /\ Glob(dir) # {}
        /\ Construct("multi", <<dir>>, TRUE,
                     MultiFile_init(Blank, 1, header).s)

InitFile ==
    \E dir \in FileKinds, header \in BOOLEAN, hf \in BOOLEAN :
        Construct("file", <<dir>>, hf, CSV_init(Blank, <<1, 1>>, header))

Init == InitDir \/ InitMulti \/ InitFile

CallNext ==
    /\ stopped => postCalls < MaxPostCalls
    /\ \E r \in {TopNext(State)} :
          /\ Install(r.s)
          /\ yielded' = IF r.out = "item" THEN Append(yielded, r.item)
                        ELSE yielded
          /\ result' = [op |-> "next", out |-> r.out, prev |-> result.op]
          /\ stopped' = (stopped \/ r.out = "StopIteration")
    /\ pulled' = TRUE
    /\ postCalls' = IF stopped THEN postCalls + 1 ELSE postCalls
    /\ UNCHANGED <<top, fs, has_formatter, records, iterCalls, closeCalls,
                   built, room, formatterVars, sinkVars>>

CallIter ==
    /\ iterCalls < MaxIters
    /\ \E r \in {TopIter(State)} :
          /\ Install(r.s)
          /\ result' = [op |-> "iter", out |-> r.out, prev |-> result.op]
    /\ iterCalls' = iterCalls + 1
    /\ UNCHANGED <<top, fs, has_formatter, yielded, records, stopped, pulled,
                   postCalls, closeCalls, built, room, formatterVars,
                   sinkVars>>

CallClose ==
    /\ closeCalls < MaxCloses
    /\ \E s \in {TopClose(State)} : Install(s)
    /\ result' = [op |-> "close", out |-> "ok", prev |-> result.op]
    /\ closeCalls' = closeCalls + 1
    /\ UNCHANGED <<top, fs, has_formatter, yielded, records, stopped, pulled,
                   iterCalls, postCalls, built, room, formatterVars,
                   sinkVars>>

\* The garbage collector closes a file object nothing refers to any more.
Finalize ==
    /\ \E i \in 1..Len(handles) :
          /\ handles[i].open /\ ~handles[i].owned
          /\ handles' = [handles EXCEPT ![i].open = FALSE]
    /\ UNCHANGED <<top, fs, formatter_headers, has_formatter, dirStream,
                   multiStream, fileStream, yielded, records, result, stopped,
                   pulled, iterCalls, postCalls, closeCalls, built, room,
                   formatterVars, sinkVars>>

Next == CallNext \/ CallIter \/ CallClose \/ Finalize

Spec == Init /\ [][Next]_vars

(***************************************************************************)
(* Pulling only: a MultiDirectoryCSVStream over longer directory lists in  *)
(* which directories without a matching file occur anywhere, with a call   *)
(* stack that has room for every skip or only for a few.                   *)
(***************************************************************************)
InitSkip ==
    \E dirs \in SeqsUpTo(CleanDirKinds, MaxSkipDirs), r \in Rooms :
        /\ Streams("dir", dirs, TRUE, MultiDir_init(Blank, TRUE))
        /\ room = r
        /\ sink = NoSink
        /\ dest = NoDest
        /\ sunk = NoSunk

SpecSkip == InitSkip /\ [][CallNext]_vars

(***************************************************************************)
(* Pulling a MultiDirectoryCSVStream for as long as the caller likes, over *)
(* any mix of directories without files, files without lines and ordinary  *)
(* files, with a call stack that has room for every skip or only for a    *)
(* few.  The caller goes on calling next() until end-of-sequence.          *)
(***************************************************************************)
PullDirKinds == {DirNone, DirOne, DirEmptyFile, DirEmptyFirst}

InitPull ==
    \E dirs \in SeqsUpTo(PullDirKinds, MaxSkipDirs), header \in BOOLEAN,
       r \in Rooms :
        /\ Streams("dir", dirs, TRUE, MultiDir_init(Blank, header))
        /\ room = r
        /\ sink = NoSink
        /\ dest = NoDest
        /\ sunk = NoSunk

SpecPull == InitPull /\ [][CallNext]_vars /\ WF_vars(CallNext)

(***************************************************************************)
(* The driver loop of csv_to_txt_multi_directory and test_basic_stats:     *)
(*     for line in input_stream: parsed = formatter.parse_event(line) ...  *)
(* One step is one iteration: a pull, then parse_event on the line; a None *)
(* result and a parse failure both go on to the next line.  Every file of  *)
(* the directories repeats one header row.  The Event built from a parsed  *)
(* line (base/Event.py) parses the line once more with the header already  *)
(* set, which changes nothing here.                                        *)
(***************************************************************************)
InitDriver ==
    \E kinds \in {CleanDirKinds, PaddedDirKinds} :
        \E dirs \in SeqsUpTo(kinds, MaxDirs) :
            Construct("dir", dirs, TRUE, MultiDir_init(Blank, TRUE))

DriverStep ==
    /\ ~stopped
    /\ \E r \in {MultiDir_next(State)} :
       \E p \in {parse_event(r.s.f, r.item.line)} :
          IF r.out = "item"
          THEN /\ Install([r.s EXCEPT !.f = p.f])
               /\ yielded' = Append(yielded, r.item)
               /\ records' = Append(records, [item |-> r.item, out |-> p.out])
               /\ result' = [op |-> "next", out |-> r.out, prev |-> result.op]
               /\ stopped' = FALSE
          ELSE /\ Install(r.s)
               /\ result' = [op |-> "next", out |-> r.out, prev |-> result.op]
               /\ stopped' = TRUE
               /\ UNCHANGED <<yielded, records>>
    /\ pulled' = TRUE
    /\ UNCHANGED <<top, fs, has_formatter, iterCalls, postCalls, closeCalls,
                   built, room, formatterVars, sinkVars>>

SpecDriver == InitDriver /\ [][DriverStep]_vars

(***************************************************************************)
(* The CitiBikeDataFormatter on its own: a stream hands it the first row   *)
(* of a file (set_headers), a caller hands it lines (parse_event) and asks *)
(* for the type and the timestamp of the Record it got, as the Event       *)
(* constructor does.  HB2 is another Variant-B header of the length of HB, *)
(* HB6 one with a sixth column.                                            *)
(***************************************************************************)
HB2 == <<F("tripduration"), F("starttime"), F("stoptime"),
         F("start station id"), F("start station name")>>
HB6 == HB \o <<F("birth year")>>
RowShort == <<F("2021-01-01 08:00:00"), F("40.7"), F("b1"), F("Subscriber")>>
RowBlank == <<<<"2021-01-01 08:00:00", " ">>, F("40.7"), F("b1"),
              F("Subscriber"), F("1")>>

HeaderRows == {<<>>, HB, HA, HP}

ParseLines ==
    {Join(HB), Join(HP), Join(HA), Join(HB2), Join(HB6),
     Join(RowB("2021-01-01 08:00:00.500")), Join(RowB("2021-01-01 08:00:00")),
     Join(RowB("not-a-time")), <<" ">> \o Join(RowB("2021-01-01 08:00:00")),
     Join(RowBlank), Join(RowShort),
     Join(RowA("2021-01-01 08:00:00")), Join(RowA("not-a-time")), <<>>}

streamVars == <<top, fs, has_formatter, dirStream, multiStream, fileStream,
                handles, yielded, records, result, stopped, pulled, iterCalls,
                postCalls, closeCalls, built, room>>

InitFormatter == Construct("formatter", <<>>, TRUE, Blank)

CallSetHeaders ==
    /\ \E headers \in HeaderRows :
          formatter_headers' = set_headers(formatter_headers, headers)
    /\ call' = [NoCall EXCEPT !.op = "set_headers",
                              !.before = formatter_headers]
    /\ UNCHANGED <<streamVars, sinkVars>>

CallParseEvent ==
    /\ \E line \in ParseLines :
       \E p \in {parse_event(formatter_headers, line)} :
          /\ formatter_headers' = p.f
          /\ call' = [op |-> "parse_event", line |-> line,
                      before |-> formatter_headers, out |-> p.out,
                      detail |-> p.detail, payload |-> p.payload,
                      value |-> <<>>, raised |-> ""]
    /\ UNCHANGED <<streamVars, sinkVars>>

CallGetEventType ==
    /\ call.out = "Record"
    /\ call' = [call EXCEPT !.op = "get_event_type",
                            !.value = <<get_event_type(call.payload)>>,
                            !.raised = ""]
    /\ UNCHANGED <<formatter_headers, streamVars, sinkVars>>

CallGetEventTimestamp ==
    /\ call.out = "Record"
    /\ \E r \in {get_event_timestamp(call.payload)} :
          call' = [call EXCEPT !.op = "get_event_timestamp",
                               !.value = r.value,
                               !.raised = IF r.out = "ok" THEN "" ELSE r.out]
    /\ UNCHANGED <<formatter_headers, streamVars, sinkVars>>

NextFormatter ==
    CallSetHeaders \/ CallParseEvent \/ CallGetEventType
        \/ CallGetEventTimestamp

SpecFormatter == InitFormatter /\ [][NextFormatter]_vars

(***************************************************************************)
(* A FileOutputStream under its caller: construction over a destination    *)
(* that is absent or holds old content, then add_item and close in any     *)
(* order.  Spill is the file object's buffer reaching the file on its own. *)
(***************************************************************************)
MaxItems == 2

OldDest == [exists |-> TRUE, content |-> <<"old">>]
Items == {StrItem("a"), StrItem("b"), IntItem(1)}

InitSink ==
    /\ Streams("sink", <<>>, FALSE, Blank)
    /\ room = None
    /\ \E is_async \in BOOLEAN, old \in {NoDest, OldDest} :
       \E k \in {FileOutputStream_init([sink |-> NoSink, dest |-> old],
                                       is_async)} :
          /\ sink = k.sink
          /\ dest = k.dest
          /\ sunk = [NoSunk EXCEPT !.op = "init", !.dest0 = old]

CallAddItem ==
    /\ Len(sunk.added) + Len(sunk.late) < MaxItems
    /\ \E item \in Items :
       \E r \in {FileOutputStream_add_item(Sink, item)} :
          /\ sink' = r.k.sink
          /\ dest' = r.k.dest
          /\ sunk' = [sunk EXCEPT
                         !.op = "add_item", !.out = r.out,
                         !.added = IF sunk.closes = 0 /\ r.out = "ok"
                                   THEN Append(@, item) ELSE @,
                         !.late = IF sunk.closes = 0 /\ r.out = "ok"
                                  THEN @ ELSE Append(@, item)]
    /\ UNCHANGED <<formatter_headers, streamVars, formatterVars>>

CallSinkClose ==
    /\ sunk.closes < MaxCloses
    /\ \E k \in {FileOutputStream_close(Sink)} :
          /\ sink' = k.sink
          /\ dest' = k.dest
    /\ sunk' = [sunk EXCEPT !.op = "close", !.out = "ok", !.closes = @ + 1]
    /\ UNCHANGED <<formatter_headers, streamVars, formatterVars>>

Spill ==
    /\ sink.output_file # None
    /\ sink.output_file[1].open
    /\ sink.output_file[1].pending # <<>>
    /\ dest' = [dest EXCEPT !.content = @ \o sink.output_file[1].pending]
    /\ sink' = [sink EXCEPT !.output_file[1].pending = <<>>]
    /\ UNCHANGED <<formatter_headers, streamVars, formatterVars, sunk>>

NextSink == CallAddItem \/ CallSinkClose \/ Spill

SpecSink == InitSink /\ [][NextSink]_vars

(***************************************************************************)
(* A MultiFileCSVStream whose directory changes while it is pulled: files  *)
(* matching the pattern are added under new names, and files are removed   *)
(* or renamed, whether or not the stream has read them.  The names 1, 3    *)
(* and 5 are free in DirSparse, so that a new file can sort before,        *)
(* between and after the files the stream was built over.                  *)
(***************************************************************************)
DirSparse == {File(2, TRUE, <<HB, RowB("t2")>>),
              File(4, TRUE, <<HB, RowB("t4")>>)}
NewNames == {1, 3, 5}
NewRows == <<HB, RowB("t7")>>

Names(dir) == {f.name : f \in dir}

InitMutate ==
    \E dir \in {DirSparse, DirOne}, header \in BOOLEAN :
        Construct("multi", <<dir>>, TRUE, MultiFile_init(Blank, 1, header).s)

mutateVars == <<top, formatter_headers, has_formatter, dirStream, multiStream,
                fileStream, handles, yielded, records, result, stopped, pulled,
                iterCalls, postCalls, closeCalls, built, room, formatterVars,
                sinkVars>>

AddFile ==
    /\ \E n \in NewNames \ Names(fs[1]) :
          fs' = [fs EXCEPT ![1] = @ \cup {File(n, TRUE, NewRows)}]
    /\ UNCHANGED mutateVars

RemoveFile ==
    /\ \E f \in fs[1] :
          /\ f.linked
          /\ fs' = [fs EXCEPT ![1] = (@ \ {f})
                                      \cup {[f EXCEPT !.linked = FALSE]}]
    /\ UNCHANGED mutateVars

RenameFile ==
    /\ \E f \in fs[1], n \in NewNames \ Names(fs[1]) :
          /\ f.linked
          /\ fs' = [fs EXCEPT ![1] = (@ \ {f})
                                      \cup {[f EXCEPT !.linked = FALSE],
                                            File(n, f.matches, f.rows)}]
    /\ UNCHANGED mutateVars

NextMutate == CallNext \/ AddFile \/ RemoveFile \/ RenameFile

SpecMutate == InitMutate /\ [][NextMutate]_vars

(***************************************************************************)
(* What the properties below speak about.                                  *)
(***************************************************************************)
Lines(items) == [i \in 1..Len(items) |-> items[i].line]

OpenHandles == {i \in 1..Len(handles) : handles[i].open}

\* Every matching file of directory d starts with the same header row.
SameHeader(d) ==
    /\ Glob(fs[d]) # {}
    /\ \A n \in Glob(fs[d]) : Len(FileRows(<<d, n>>)) >= 1
    /\ \A n1, n2 \in Glob(fs[d]) :
          FileRows(<<d, n1>>)[1] = FileRows(<<d, n2>>)[1]

\* The data rows (all but the first row) of the named files, in order.
RECURSIVE DataLines(_, _)
DataLines(d, names) ==
    IF names = <<>> THEN <<>>
    ELSE LET rows == FileRows(<<d, names[1]>>)
         IN [k \in 1..(Len(rows) - 1) |-> Join(rows[k + 1])]
            \o DataLines(d, Tail(names))

\* x is yielded before y only if x comes first by directory, file, row.
Before(x, y) ==
    \/ x.d < y.d
    \/ x.d = y.d /\ x.f < y.f
    \/ x.d = y.d /\ x.f = y.f /\ x.r < y.r

\* What a MultiFileCSVStream over directory d yields when pulled to its end.
RECURSIVE Drain(_)
Drain(s) ==
    LET n == MultiFile_next(s)
    IN IF n.out = "item" THEN <<n.item>> \o Drain(n.s) ELSE <<>>

RECURSIVE NonEmptyDirsYield(_)
NonEmptyDirsYield(d) ==
    IF d > Len(fs) THEN <<>>
    ELSE (IF Glob(fs[d]) = {} THEN <<>>
          ELSE Drain(MultiFile_init(Blank, d, TRUE).s))
         \o NonEmptyDirsYield(d + 1)

IsPrefix(a, b) == Len(a) <= Len(b) /\ a = SubSeq(b, 1, Len(a))

\* The Records the driver made of row r of file n of directory d.
RecordsOf(d, n, r) ==
    {i \in 1..Len(records) :
        /\ records[i].out = "Record"
        /\ records[i].item.d = d /\ records[i].item.f = n
        /\ records[i].item.r = r}

(***************************************************************************)
(* C1: pulled to its end, a MultiFileCSVStream with has_header=True over a *)
(* directory whose files all start with the same header row yields exactly *)
(* the data rows of the files in file order, and never the header row.     *)
(***************************************************************************)
C1_MultiFileYieldsOnlyDataRows ==
    (/\ top = "multi" /\ multiStream.has_header /\ SameHeader(1)
     /\ stopped /\ closeCalls = 0)
    => /\ Lines(yielded) = DataLines(1, file_paths_of(fs[1]))
       /\ \A i \in 1..Len(yielded), n \in Glob(fs[1]) :
             yielded[i].line # Join(FileRows(<<1, n>>)[1])

(***************************************************************************)
(* C2: when the driver loop has ended, every data row of every file has    *)
(* produced exactly one Record and every header row has produced none.     *)
(***************************************************************************)
C2_OneRecordPerDataRow ==
    stopped =>
        \A d \in 1..Len(fs) : \A n \in Glob(fs[d]) :
            \A r \in 1..Len(FileRows(<<d, n>>)) :
                Cardinality(RecordsOf(d, n, r)) = IF r = 1 THEN 0 ELSE 1

(***************************************************************************)
(* C3: the items are yielded in directory-list order, then sorted file     *)
(* name order, then row order; nothing is yielded twice or interleaved.    *)
(***************************************************************************)
C3_YieldOrder ==
    \A i, j \in 1..Len(yielded) : i < j => Before(yielded[i], yielded[j])

C3_Witness ==
    /\ top = "dir" /\ stopped
    /\ \E i, j \in 1..Len(yielded) : yielded[i].d < yielded[j].d
    /\ \E i, j \in 1..Len(yielded) :
          yielded[i].d = yielded[j].d /\ yielded[i].f < yielded[j].f
    /\ \E i, j \in 1..Len(yielded) :
          /\ yielded[i].d = yielded[j].d /\ yielded[i].f = yielded[j].f
          /\ yielded[i].r < yielded[j].r

(***************************************************************************)
(* C4: whatever directories match no file, a MultiDirectoryCSVStream       *)
(* yields the concatenation of what the MultiFileCSVStreams of the other   *)
(* directories yield, in list order, and next() never ends with the        *)
(* no-matching-files failure.                                              *)
(***************************************************************************)
C4_EmptyDirectoriesSkipped ==
    /\ IsPrefix(yielded, NonEmptyDirsYield(1))
    /\ stopped => yielded = NonEmptyDirsYield(1)
    /\ result.out \in {"ok", "item", "StopIteration", "TypeError",
                       "RecursionError"}

(***************************************************************************)
(* C5: once next() has signalled end-of-sequence, every later next() on    *)
(* the same stream signals end-of-sequence again.                          *)
(***************************************************************************)
C5_ExhaustionIsTerminal ==
    [][(stopped /\ closeCalls = 0 /\ postCalls' # postCalls)
          => result'.out = "StopIteration"]_vars

(***************************************************************************)
(* C6: a handle is closed by its CSVFileInputStream at most once, and no   *)
(* handle is open when the stream's next() has signalled end-of-sequence.  *)
(***************************************************************************)
C6_HandleReleasedOnExhaustion ==
    top = "file" =>
        /\ \A i \in 1..Len(handles) : handles[i].closes <= 1
        /\ (result.op = "next" /\ result.out = "StopIteration")
              => OpenHandles = {}

(***************************************************************************)
(* C7: close() never fails, and however often close() is called no file    *)
(* handle is closed more than once.                                        *)
(***************************************************************************)
C7_CloseIdempotent ==
    /\ \A i \in 1..Len(handles) : handles[i].closes <= 1
    /\ result.op = "close" => result.out = "ok"

C7_Witness ==
    /\ result.op = "close" /\ result.prev = "close"
    /\ ~stopped /\ yielded # <<>>
    /\ \E i \in 1..Len(handles) : handles[i].closes = 1

(***************************************************************************)
(* C8: right after close() on a MultiDirectoryCSVStream no file handle     *)
(* that a stream of the pipeline refers to is open (a handle that a        *)
(* re-initialised stream no longer refers to is left to the collector).    *)
(***************************************************************************)
C8_ClosePropagates ==
    (top = "dir" /\ result.op = "close")
    => /\ \A i \in OpenHandles : ~handles[i].owned
       /\ fileStream.file = 0

C8_Witness ==
    /\ top = "dir" /\ result.op = "close" /\ result.prev = "next"
    /\ ~stopped /\ yielded # <<>>
    /\ \E i \in 1..Len(handles) : ~handles[i].open /\ handles[i].closes = 1

(***************************************************************************)
(* C9 as claimed: a CSVFileInputStream holds no file handle before the     *)
(* first next() on it.                                                     *)
(***************************************************************************)
C9_NoHandleBeforeFirstNext ==
    (top = "file" /\ ~pulled) => handles = <<>>

(***************************************************************************)
(* C9 as amended: a CSVFileInputStream holds no file handle before the     *)
(* first next() or __iter__() on it; __iter__() opens the file.            *)
(***************************************************************************)
C9_NoHandleBeforeFirstNextOrIter ==
    top = "file" =>
        /\ (~pulled /\ iterCalls = 0) => handles = <<>>
        /\ iterCalls > 0 => handles # <<>>

C9_Witness ==
    /\ top = "file" /\ ~pulled /\ iterCalls = 0
    /\ result.op = "close" /\ handles = <<>>

(***************************************************************************)
(* C10: once the formatter holds a non-empty header, no step changes it.   *)
(***************************************************************************)
C10_HeaderSingleAssignment ==
    [][(formatter_headers # None /\ formatter_headers[1] # <<>>)
          => formatter_headers' = formatter_headers]_vars

(***************************************************************************)
(* What the properties of the formatter speak about: the fields of the     *)
(* line of the latest call, the number of its comma-separated fields, and  *)
(* the schema variant of a Record by the column names it has.              *)
(***************************************************************************)
Fields(line) == Split(Strip(line))
FieldCount(line) ==
    Cardinality({i \in 1..Len(line) : line[i] = ","}) + 1
HeaderCaptured(h) == h # None /\ h[1] # <<>>
VariantA(payload) == F("started_at") \in DOMAIN payload
VariantB(payload) == F("starttime") \in DOMAIN payload

(***************************************************************************)
(* C11: parse_event returns None for every line that is the active header  *)
(* or that the heuristic detects as a header, whether or not a header is   *)
(* already captured.                                                       *)
(***************************************************************************)
C11_HeaderLinesSkipped ==
    call.op = "parse_event" =>
        ((\/ HeaderCaptured(call.before) /\ Fields(call.line) = call.before[1]
          \/ is_header_row(Fields(call.line)))
            => call.out = "None")

(***************************************************************************)
(* C12: with a header of h fields captured, a line of n # h fields fails   *)
(* with the shape mismatch whose detail names h as expected and n as       *)
(* actual, and a Record is returned only when n = h.                       *)
(***************************************************************************)
C12_ShapeMismatchNamesCounts ==
    (call.op = "parse_event" /\ HeaderCaptured(call.before)) =>
        LET h == Len(call.before[1])
            n == FieldCount(call.line)
        IN /\ n # h => /\ call.out = "ShapeMismatch"
                       /\ call.detail = [expected |-> h, actual |-> n]
           /\ call.out = "Record" => n = h

C12_Witness ==
    /\ call.op = "parse_event" /\ HeaderCaptured(call.before)
    /\ Len(call.before[1]) = 5 /\ FieldCount(call.line) = 4
    /\ call.out = "ShapeMismatch"

(***************************************************************************)
(* C13: with no header captured, parse_event fails with the setup error on *)
(* a line that does not look like a header, captures a line that does and  *)
(* returns None for it, and never returns a Record.                        *)
(***************************************************************************)
C13_NoHeaderNoRecord ==
    (call.op = "parse_event" /\ ~HeaderCaptured(call.before)) =>
        /\ call.out # "Record"
        /\ ~is_header_row(Fields(call.line))
              => call.out = "SetupError" /\ formatter_headers = call.before
        /\ is_header_row(Fields(call.line))
              => /\ call.out = "None"
                 /\ formatter_headers = Some(Fields(call.line))

C13_Witness ==
    /\ call.op = "parse_event" /\ call.before = None
    /\ is_header_row(Fields(call.line))
    /\ call.out = "None" /\ HeaderCaptured(formatter_headers)

(***************************************************************************)
(* C14: for a Record of either schema variant get_event_type returns the   *)
(* value of a field of the Record (for Variant A that of rideable_type),   *)
(* and "unknown" only for a Record of neither variant.                     *)
(***************************************************************************)
C14_TypeIsClassificationField ==
    call.op = "get_event_type" =>
        /\ F("rideable_type") \in DOMAIN call.payload
              => call.value = <<call.payload[F("rideable_type")]>>
        /\ (VariantA(call.payload) \/ VariantB(call.payload))
              => \E h \in DOMAIN call.payload :
                    call.value = <<call.payload[h]>>

(***************************************************************************)
(* C15: get_event_timestamp reads started_at of a Variant-A Record and     *)
(* starttime of a Variant-B Record; it returns the milliseconds when the   *)
(* value matches one of the two patterns, and fails as unparseable only    *)
(* when the value matches neither.                                         *)
(***************************************************************************)
C15_TimestampOfOwnVariant ==
    (/\ call.op = "get_event_timestamp"
     /\ VariantA(call.payload) \/ VariantB(call.payload)) =>
        LET start == IF VariantA(call.payload)
                     THEN call.payload[F("started_at")].text
                     ELSE call.payload[F("starttime")].text
            matches == strptime_fraction(start) \/ strptime_plain(start)
        IN /\ matches => /\ call.raised = ""
                         /\ call.value = <<Millis(start)>>
           /\ call.raised = "InvalidTimestamp" => ~matches

(***************************************************************************)
(* What the properties of the FileOutputStream speak about: the string     *)
(* forms of items, concatenated in order.                                  *)
(***************************************************************************)
RECURSIVE StrAll(_)
StrAll(items) ==
    IF items = <<>> THEN <<>> ELSE Str(items[1]) \o StrAll(Tail(items))

C17_WriteThroughImmediate ==
    (sink.is_async /\ sunk.closes = 0)
        => dest.content = StrAll(sunk.added)

(***************************************************************************)
(* C20: a second close() of a buffered FileOutputStream, with nothing      *)
(* appended since the first, raises no error and leaves the content of the *)
(* destination as the first close() wrote it.                              *)
(***************************************************************************)
C20_SecondCloseKeepsContent ==
    [][(/\ ~sink.is_async /\ sunk.closes >= 1 /\ sunk.late = <<>>
        /\ sunk'.closes = sunk.closes + 1)
          => (dest' = dest /\ sunk'.out = "ok")]_vars

(***************************************************************************)
(* C18: after close() on a MultiFileCSVStream, whenever it was called,     *)
(* every next() signals end-of-sequence, opens no file and yields no item. *)
(***************************************************************************)
C18_CloseExhausts ==
    [][(top = "multi" /\ closeCalls > 0 /\ CallNext)
          => /\ result'.out = "StopIteration"
             /\ Len(handles') = Len(handles)
             /\ yielded' = yielded]_vars

(***************************************************************************)
(* What the properties of a changing directory speak about: the files the  *)
(* stream has opened, and that its list is the sorted list of the files    *)
(* that matched when it was built and its opens follow that list.          *)
(***************************************************************************)
HasHandle(n) == \E i \in 1..Len(handles) : handles[i].path = <<1, n>>

ListIsAsBuilt ==
    /\ get_file_paths(multiStream) = Sorted(Glob(built[1]))
    /\ get_file_count(multiStream) = Cardinality(Glob(built[1]))
    /\ \A i \in 1..Len(handles) : handles[i].path[2] \in Glob(built[1])
    /\ \A i, j \in 1..Len(handles) :
          i < j => handles[i].path[2] <= handles[j].path[2]
    /\ multiStream.current_stream =>
          fileStream.file_path =
              <<1, multiStream.file_paths[multiStream.current_file_index]>>

(***************************************************************************)
(* C19 as claimed: the file list is the sorted list of the files that      *)
(* matched at construction and never changes, and whatever is added to,    *)
(* removed from or renamed in the directory, the stream opens the files of *)
(* that list in that order: every file it has come to has been opened.     *)
(***************************************************************************)
C19_FileListFixedAllOpened ==
    top = "multi" =>
        /\ ListIsAsBuilt
        /\ \A k \in 1..multiStream.current_file_index :
              HasHandle(multiStream.file_paths[k])

(***************************************************************************)
(* C19 as amended: the file list is the sorted list of the files that      *)
(* matched at construction and never changes; the stream goes to open the  *)
(* files of that list in that order and no other file; a file of the list  *)
(* that is gone when its turn comes is not opened: next() fails with the   *)
(* error of open() and the stream stays at that file.                      *)
(***************************************************************************)
C19_FileListFixed ==
    top = "multi" =>
        /\ ListIsAsBuilt
        /\ \A k \in 1..multiStream.current_file_index :
              \/ HasHandle(multiStream.file_paths[k])
              \/ /\ k = multiStream.current_file_index
                 /\ ~Linked(<<1, multiStream.file_paths[k]>>)
        /\ result.out = "FileNotFoundError"
              => /\ ~Linked(fileStream.file_path)
                 /\ ~HasHandle(fileStream.file_path[2])

C19_Witness ==
    /\ top = "multi" /\ yielded # <<>>
    /\ result.out = "FileNotFoundError"
    /\ \E n \in Glob(fs[1]) \ Glob(built[1]) :
          n < multiStream.file_paths[multiStream.current_file_index]
    /\ get_file_count(multiStream) = 2

(***************************************************************************)
(* C21: under any sequence of next() and close() calls on a                *)
(* MultiDirectoryCSVStream at most one file handle that a stream of the    *)
(* pipeline refers to is open: the handle of the previous                  *)
(* CSVFileInputStream is closed before the next file, of the same or of    *)
(* the next directory, is opened.                                          *)
(***************************************************************************)
OwnedOpenHandles == {i \in OpenHandles : handles[i].owned}

C21_AtMostOneOpenHandle ==
    top = "dir" =>
        /\ Cardinality(OwnedOpenHandles) <= 1
        /\ \A i \in OwnedOpenHandles : i = fileStream.file

C21_Witness ==
    /\ top = "dir"
    /\ \E i, j, k \in 1..Len(handles) :
          /\ i < j /\ j < k
          /\ handles[i].path[1] = handles[j].path[1]
          /\ handles[j].path[1] < handles[k].path[1]
          /\ ~handles[i].open /\ ~handles[j].open
          /\ handles[k].open /\ handles[k].owned

(***************************************************************************)
(* What the termination property speaks about: the rows of all matching    *)
(* files of the directory list.                                            *)
(***************************************************************************)
RECURSIVE RowCount(_, _)
RowCount(d, names) ==
    IF names = {} THEN 0
    ELSE LET n == CHOOSE x \in names : TRUE
         IN Len(FileRows(<<d, n>>)) + RowCount(d, names \ {n})

RECURSIVE TotalRows(_)
TotalRows(d) ==
    IF d > Len(fs) THEN 0 ELSE RowCount(d, Glob(fs[d])) + TotalRows(d + 1)

(***************************************************************************)
(* C22: over a finite list of directories with finitely many finite files, *)
(* empty directories and empty files included, a caller that goes on       *)
(* calling next() on a MultiDirectoryCSVStream is eventually signalled     *)
(* end-of-sequence; the directory index never decreases, the file index of *)
(* a directory never decreases, and no more items are yielded than the     *)
(* files have rows.                                                        *)
(***************************************************************************)
C22_PullingTerminates ==
    /\ <>stopped
    /\ [](Len(yielded) <= TotalRows(1))
    /\ [][/\ dirStream'.current_dir_index >= dirStream.current_dir_index
          /\ dirStream'.current_dir_index = dirStream.current_dir_index
                => multiStream'.current_file_index
                      >= multiStream.current_file_index]_vars

=============================================================================
